---- MODULE Spec2Model ----
(***************************************************************************)
(* Model of AnimeWallpaperBot (src/main.py): the frame sampling loop of    *)
(* extract_wallpapers, the content gate and the weighted score of          *)
(* compute_beauty_score, the sort / truncate step and the save loop.       *)
(*                                                                         *)
(* A frame is a record [idx, px]: idx is the position of the frame in the  *)
(* source, px is what the OpenCV / tesseract primitives return on its      *)
(* pixels (OCR string or failure, Laplacian variance, detected face boxes  *)
(* or failure, hue variance, Canny edge density, mean squared difference   *)
(* of the mirrored halves).  Scores are exact rationals [n, d], d > 0.     *)
(***************************************************************************)
EXTENDS Integers, Sequences, FiniteSets, TLC

VARIABLES
    isOpened,            \* video.isOpened()
    total,               \* number of frames the source holds
    fps2,                \* video.get(CAP_PROP_FPS), in half frames per second
    num_wallpapers,      \* argument of extract_wallpapers
    pos,                 \* number of frames video.read() has delivered
    count,               \* local count
    frame,               \* local frame
    score,               \* local score
    frames_with_scores,  \* local list of (frame, score)
    top_frames,          \* local list, set after the sort
    i,                   \* index of the save loop
    written,             \* ranks whose cv2.imwrite succeeded
    failed,              \* ranks whose cv2.imwrite returned False
    printed,             \* ranks announced by print("Saved wallpaper: ...")
    scored,              \* history: idx of every frame handed to compute_beauty_score
    arrivals,            \* history: (frame, score) of every frame scored other than -1
    pc,                  \* "loop", "save", "done", "raised"
    exc,                 \* exception that left extract_wallpapers, or "none"
    result               \* value returned by extract_wallpapers, or <<>> before it returns

vars == <<isOpened, total, fps2, num_wallpapers, pos, count, frame, score,
          frames_with_scores, top_frames, i, written, failed, printed,
          scored, arrivals, pc, exc, result>>

\* ---------------------------------------------------------------- bounds
MaxFrames == 4
MaxFps == 2
MaxK == 3

\* an unassigned local: frame before the first read (and after a failed
\* read), score before the first scoring
NoFrame == [idx |-> 0 - 1]
NoScore == [n |-> 0, d |-> 0]

\* what the collaborators deliver: a value or a failure
Ok(v) == [ok |-> TRUE, val |-> v]
OcrError == [ok |-> FALSE, val |-> <<>>]
FaceError == [ok |-> FALSE, val |-> <<>>]

\* ------------------------------------------------------------- rationals
Rat(n, d) == [n |-> n, d |-> d]
RatAdd(a, b) == Rat(a.n * b.d + b.n * a.d, a.d * b.d)
RatMul(a, b) == Rat(a.n * b.n, a.d * b.d)
RatGt(a, b) == a.n * b.d > b.n * a.d
RatLt(a, b) == a.n * b.d < b.n * a.d
RatEq(a, b) == a.n * b.d = b.n * a.d

\* ------------------------------------------------------------ text strip
Whitespace == {" ", "\t"}

RECURSIVE lstrip(_)
lstrip(s) ==
    IF s = <<>> THEN <<>>
    ELSE IF Head(s) \in Whitespace THEN lstrip(Tail(s)) ELSE s

RECURSIVE rstrip(_)
rstrip(s) ==
    IF s = <<>> THEN <<>>
    ELSE IF s[Len(s)] \in Whitespace THEN rstrip(SubSeq(s, 1, Len(s) - 1)) ELSE s

strip(s) == rstrip(lstrip(s))

\* --------------------------------------------------------- frame domain
Box(w, h) == [w |-> w, h |-> h]

Pixels ==
    {   \* text on a sharp frame and on a blurred frame
        [ocr |-> Ok(<<" ", "a">>), sharpness |-> 150, faces |-> Ok(<<>>),
         hue |-> 2, edge |-> 0, diff |-> 0],
        [ocr |-> Ok(<<"a", "\t">>), sharpness |-> 99, faces |-> Ok(<<>>),
         hue |-> 0, edge |-> 0, diff |-> 0],
        \* no text, below the sharpness floor
        [ocr |-> Ok(<<>>), sharpness |-> 99, faces |-> Ok(<<Box(251, 200)>>),
         hue |-> 2, edge |-> 1, diff |-> 0],
        \* OCR failure, below the sharpness floor
        [ocr |-> OcrError, sharpness |-> 99, faces |-> Ok(<<>>),
         hue |-> 1, edge |-> 0, diff |-> 0],
        \* admitted frames
        [ocr |-> Ok(<<>>), sharpness |-> 100, faces |-> Ok(<<>>),
         hue |-> 0, edge |-> 0, diff |-> 1],
        [ocr |-> Ok(<<" ", "\t">>), sharpness |-> 100, faces |-> Ok(<<Box(251, 200)>>),
         hue |-> 0, edge |-> 0, diff |-> 0],
        [ocr |-> Ok(<<>>), sharpness |-> 120, faces |-> Ok(<<Box(250, 200)>>),
         hue |-> 1, edge |-> 2, diff |-> 0],
        [ocr |-> OcrError, sharpness |-> 150,
         faces |-> Ok(<<Box(250, 200), Box(300, 200)>>),
         hue |-> 1, edge |-> 2, diff |-> 0],
        \* face detector failure on an otherwise admissible frame
        [ocr |-> Ok(<<>>), sharpness |-> 100, faces |-> FaceError,
         hue |-> 0, edge |-> 0, diff |-> 0],
        \* both detectors fail
        [ocr |-> OcrError, sharpness |-> 100, faces |-> FaceError,
         hue |-> 0, edge |-> 0, diff |-> 0]
    }

\* ------------------------------------------------------- feature metrics
get_sharpness(f) == f.px.sharpness

get_color_variance(f) == Rat(f.px.hue, 1)

get_edge_density(f) == Rat(f.px.edge, 1)

get_symmetry(f) == Rat(1, 1 + f.px.diff)

Ret(v) == [kind |-> "return", val |-> v]
Raise(e) == [kind |-> "raise", exc |-> e]

RECURSIVE Areas(_)
Areas(boxes) ==
    IF boxes = <<>> THEN <<>>
    ELSE <<Head(boxes).w * Head(boxes).h>> \o Areas(Tail(boxes))

detect_faces(f) ==
    IF ~f.px.faces.ok THEN Raise("FaceDetectorError")
    ELSE Ret([num |-> Len(f.px.faces.val), sizes |-> Areas(f.px.faces.val)])

\* variant: the detector's failure counts as text
has_text_failclosed(f) ==
    IF ~f.px.ocr.ok THEN TRUE
    ELSE Len(strip(f.px.ocr.val)) > 0

\* variant: the recognised string is not trimmed
has_text_nostrip(f) ==
    IF ~f.px.ocr.ok THEN FALSE
    ELSE Len(f.px.ocr.val) > 0

has_text(f) ==
    IF ~f.px.ocr.ok THEN FALSE
    ELSE Len(strip(f.px.ocr.val)) > 0

\* ----------------------------------------------------------------- score
REJECTED == Rat(-1, 1)
SharpnessFloor == 100
LargeFace == 50000
w_faces == Rat(5, 10)
w_color == Rat(3, 10)
w_edge == Rat(1, 10)
w_symmetry == Rat(1, 10)

NumLarge(sizes) == Cardinality({k \in 1..Len(sizes) : sizes[k] > LargeFace})

compute_beauty_score(f) ==
    IF has_text(f) \/ get_sharpness(f) < SharpnessFloor THEN Ret(REJECTED)
    ELSE LET d == detect_faces(f) IN
         IF d.kind = "raise" THEN d
         ELSE Ret(RatAdd(RatAdd(RatMul(w_faces, Rat(NumLarge(d.val.sizes), 1)),
                                RatMul(w_color, get_color_variance(f))),
                         RatAdd(RatMul(w_edge, get_edge_density(f)),
                                RatMul(w_symmetry, get_symmetry(f)))))

\* ------------------------------------------------- list.sort and slicing
Key(x) == x[2]

Min(a, b) == IF a < b THEN a ELSE b
Max(a, b) == IF a > b THEN a ELSE b

\* variant: an unstable sort, x goes before the elements of equal key
RECURSIVE InsertDescUnstable(_, _)
InsertDescUnstable(x, s) ==
    IF s = <<>> THEN <<x>>
    ELSE IF ~RatLt(Key(x), Key(Head(s))) THEN <<x>> \o s
         ELSE <<Head(s)>> \o InsertDescUnstable(x, Tail(s))

\* list.sort(key, reverse=True) is stable: x goes after every element whose
\* key is greater than or equal to its own.
RECURSIVE InsertDesc(_, _)
InsertDesc(x, s) ==
    IF s = <<>> THEN <<x>>
    ELSE IF RatGt(Key(x), Key(Head(s))) THEN <<x>> \o s
         ELSE <<Head(s)>> \o InsertDesc(x, Tail(s))

RECURSIVE SortDesc(_)
SortDesc(s) ==
    IF s = <<>> THEN <<>>
    ELSE InsertDesc(s[Len(s)], SortDesc(SubSeq(s, 1, Len(s) - 1)))

\* variant: the slice runs one element too far
SliceToInclusive(s, k) ==
    IF k >= 0 THEN SubSeq(s, 1, IF k + 1 < Len(s) THEN k + 1 ELSE Len(s))
    ELSE SubSeq(s, 1, IF Len(s) + k + 1 > 0 THEN Len(s) + k + 1 ELSE 0)

\* s[:k] of a Python list: a negative k counts from the end.
SliceTo(s, k) ==
    IF k >= 0 THEN SubSeq(s, 1, Min(k, Len(s)))
    ELSE SubSeq(s, 1, Max(Len(s) + k, 0))

\* int(video.get(cv2.CAP_PROP_FPS)): truncation of the declared rate
IntFps == fps2 \div 2

\* variant: the stride is counted from one
SampledFromOne(c, f) == (c + 1) % f = 0

Sampled(c, f) == c % f = 0

\* variant: the threshold of the append is a tenth instead of zero
AdmitsAboveTenth(sc) == RatGt(sc, Rat(1, 10))

Admits(sc) == RatGt(sc, Rat(0, 1))

\* ------------------------------------------------------------------ init
Init ==
    /\ isOpened \in BOOLEAN
    /\ total \in (IF isOpened THEN 0..MaxFrames ELSE {0})
    /\ fps2 \in 0..(2 * MaxFps)
    /\ num_wallpapers \in (0 - 1)..MaxK
    /\ pos = 0
    /\ count = 0
    /\ frame = NoFrame
    /\ score = NoScore
    /\ frames_with_scores = <<>>
    /\ top_frames = <<>>
    /\ i = 0
    /\ written = {}
    /\ failed = {}
    /\ printed = <<>>
    /\ scored = <<>>
    /\ arrivals = <<>>
    /\ pc = "loop"
    /\ exc = "none"
    /\ result = <<>>

Config == <<isOpened, total, fps2, num_wallpapers>>
SaveVars == <<i, written, failed, printed, result>>

\* variant: the frame is written as soon as it is appended
LoopOutputEager ==
    /\ written' = written \cup {Len(frames_with_scores)}
    /\ UNCHANGED <<i, failed, printed, result>>

\* the body of the sampling loop holds no cv2.imwrite, print or return
LoopOutput == UNCHANGED SaveVars

\* video.release(); frames_with_scores.sort(...); top_frames = ...[:num_wallpapers]
SortAndSelect ==
    /\ frames_with_scores' = SortDesc(frames_with_scores)
    /\ top_frames' = SliceTo(frames_with_scores', num_wallpapers)
    /\ pc' = "save"

\* while video.isOpened() is false on entry: the loop body never runs
LoopNotEntered ==
    /\ pc = "loop"
    /\ ~isOpened
    /\ SortAndSelect
    /\ UNCHANGED <<Config, pos, count, frame, score, SaveVars, scored, arrivals, exc>>

\* video.read() returns (False, None): break
EndOfStream ==
    /\ pc = "loop"
    /\ isOpened
    /\ pos = total
    /\ frame' = NoFrame
    /\ SortAndSelect
    /\ UNCHANGED <<Config, pos, count, score, SaveVars, scored, arrivals, exc>>

\* count % int(fps) with int(fps) = 0 raises ZeroDivisionError
ReadZeroDivision ==
    /\ pc = "loop"
    /\ isOpened
    /\ pos < total
    /\ \E px \in Pixels : frame' = [idx |-> pos, px |-> px]
    /\ pos' = pos + 1
    /\ IntFps = 0
    /\ pc' = "raised"
    /\ exc' = "ZeroDivisionError"
    /\ UNCHANGED <<Config, count, score, frames_with_scores, top_frames,
                   SaveVars, scored, arrivals>>

\* a frame off the one-per-second stride: only count += 1
ReadSkip ==
    /\ pc = "loop"
    /\ isOpened
    /\ pos < total
    /\ \E px \in Pixels : frame' = [idx |-> pos, px |-> px]
    /\ pos' = pos + 1
    /\ IntFps # 0
    /\ ~Sampled(count, IntFps)
    /\ count' = count + 1
    /\ UNCHANGED <<Config, score, frames_with_scores, top_frames,
                   SaveVars, scored, arrivals, pc, exc>>

\* a frame on the stride: compute_beauty_score, append when score > 0
ReadScore ==
    /\ pc = "loop"
    /\ isOpened
    /\ pos < total
    /\ IntFps # 0
    /\ Sampled(count, IntFps)
    /\ \E px \in Pixels :
         LET f == [idx |-> pos, px |-> px]
             r == compute_beauty_score(f)
         IN /\ frame' = f
            /\ r.kind = "return"
            /\ score' = r.val
            /\ frames_with_scores' =
                 IF Admits(r.val) THEN Append(frames_with_scores, <<f, r.val>>)
                 ELSE frames_with_scores
            /\ arrivals' =
                 IF r.val # REJECTED THEN Append(arrivals, <<f, r.val>>)
                 ELSE arrivals
    /\ pos' = pos + 1
    /\ scored' = Append(scored, pos)
    /\ count' = count + 1
    /\ LoopOutput
    /\ UNCHANGED <<Config, top_frames, pc, exc>>

\* a frame on the stride whose scoring raises: the exception leaves the loop
ReadScoreRaises ==
    /\ pc = "loop"
    /\ isOpened
    /\ pos < total
    /\ IntFps # 0
    /\ Sampled(count, IntFps)
    /\ \E px \in Pixels :
         LET f == [idx |-> pos, px |-> px]
             r == compute_beauty_score(f)
         IN /\ frame' = f
            /\ r.kind = "raise"
            /\ exc' = r.exc
    /\ pos' = pos + 1
    /\ scored' = Append(scored, pos)
    /\ pc' = "raised"
    /\ UNCHANGED <<Config, count, score, frames_with_scores, top_frames,
                   SaveVars, arrivals>>

\* one turn of the save loop: cv2.imwrite returns True or False, then print
SaveFrame ==
    /\ pc = "save"
    /\ i < Len(top_frames)
    /\ frame' = top_frames[i + 1][1]
    /\ score' = top_frames[i + 1][2]
    /\ \E ok \in BOOLEAN :
         /\ written' = IF ok THEN written \cup {i} ELSE written
         /\ failed' = IF ok THEN failed ELSE failed \cup {i}
    /\ printed' = Append(printed, i)
    /\ i' = i + 1
    /\ UNCHANGED <<Config, pos, count, frames_with_scores, top_frames,
                   scored, arrivals, pc, exc, result>>

\* return top_frames
Return ==
    /\ pc = "save"
    /\ i = Len(top_frames)
    /\ result' = top_frames
    /\ pc' = "done"
    /\ UNCHANGED <<Config, pos, count, frame, score, frames_with_scores,
                   top_frames, i, written, failed, printed, scored, arrivals, exc>>

Next ==
    \/ LoopNotEntered
    \/ EndOfStream
    \/ ReadZeroDivision
    \/ ReadSkip
    \/ ReadScore
    \/ ReadScoreRaises
    \/ SaveFrame
    \/ Return

Spec == Init /\ [][Next]_vars

\* ------------------------------------------------------- claim vocabulary
Last(s) == s[Len(s)]
Range(s) == {s[k] : k \in 1..Len(s)}
Finished == pc \in {"save", "done"}
K == num_wallpapers
DeclaredFps == fps2 \div 2
IntegerFps == fps2 % 2 = 0 /\ fps2 > 0
IsStride(k) == k % DeclaredFps = 0
Indices(n) == [k \in 1..n |-> k - 1]
DistinctScores(s) ==
    \A a, b \in 1..Len(s) : a # b => ~RatEq(s[a][2], s[b][2])
\* the frame held in the local `frame` is the one scored last
JustScored ==
    /\ pc \in {"loop", "raised"}
    /\ scored # <<>>
    /\ frame.idx = Last(scored)
TextFound(f) ==
    /\ f.px.ocr.ok
    /\ \E k \in 1..Len(f.px.ocr.val) : f.px.ocr.val[k] \notin Whitespace

\* C1: with N admitted frames of pairwise distinct scores and 1 <= K <= N,
\* the returned list has length K, is strictly descending by score and
\* holds exactly the K highest-scoring admitted frames.
C1_TopKDistinct ==
    (pc = "done" /\ DistinctScores(arrivals) /\ 1 <= K /\ K <= Len(arrivals)) =>
        /\ Len(result) = K
        /\ \A a \in 1..(Len(result) - 1) : RatGt(result[a][2], result[a + 1][2])
        /\ Range(result) \subseteq Range(arrivals)
        /\ \A x \in Range(arrivals) \ Range(result) :
             \A y \in Range(result) : RatGt(y[2], x[2])

C1_Witness ==
    /\ pc = "done"
    /\ DistinctScores(arrivals)
    /\ K = 2
    /\ Len(arrivals) = 3
    /\ RatLt(arrivals[1][2], arrivals[2][2])
    /\ RatLt(arrivals[2][2], arrivals[3][2])
    /\ result = <<arrivals[3], arrivals[2]>>

\* C2: whenever extract_wallpapers completes, the number of frames saved and
\* returned is min(K, number of admitted sampled frames).
C2_CountIsMin ==
    pc = "done" =>
        /\ Len(result) = Min(K, Len(arrivals))
        /\ Cardinality(written) = Min(K, Len(arrivals))

\* C3: with a positive integer fps the frames are read one by one in source
\* order, the scored frames are exactly those of index = 0 mod fps, and a
\* loop that ends has read the whole source.
C3_Sampling ==
    IntegerFps =>
        /\ scored = SelectSeq(Indices(pos), IsStride)
        /\ (pc = "loop" => count = pos)
        /\ (Finished => pos = total)

C3_Witness ==
    /\ pc = "done"
    /\ fps2 = 4
    /\ total = 4
    /\ scored = <<0, 2>>

\* C4: a scored frame gets the sentinel when the detector returned text that
\* is non-empty after trimming, whatever its sharpness, and when its
\* sharpness is below 100; with no text and sharpness >= 100 it does not.
C4_Gate ==
    JustScored =>
        /\ (TextFound(frame) => pc = "loop" /\ score = REJECTED)
        /\ (frame.px.sharpness < 100 => pc = "loop" /\ score = REJECTED)
        /\ (frame.px.ocr.ok /\ ~TextFound(frame) /\ frame.px.sharpness >= 100
              /\ pc = "loop" => score # REJECTED)

C4_Witness ==
    /\ JustScored
    /\ TextFound(frame)
    /\ frame.px.sharpness >= 100
    /\ score = REJECTED

\* C5: when the text detector fails on a frame no error of it leaves
\* extract_wallpapers, the frame is rejected exactly when its sharpness is
\* below 100, and the loop goes on to the next frame.
C5_OcrFailOpen ==
    (JustScored /\ ~frame.px.ocr.ok) =>
        /\ exc \in {"none", "FaceDetectorError"}
        /\ (frame.px.faces.ok \/ frame.px.sharpness < 100 =>
              /\ pc = "loop"
              /\ count = pos
              /\ (score = REJECTED <=> frame.px.sharpness < 100))

C5_Witness ==
    /\ JustScored
    /\ ~frame.px.ocr.ok
    /\ frame.px.sharpness >= 100
    /\ pc = "loop"
    /\ Len(frames_with_scores) >= 1
    /\ Last(frames_with_scores)[1] = frame

\* C6: with a non-positive frame rate, K <= 0 or an unreadable source,
\* extract_wallpapers reads and scores no frame and never returns a list.
C6_ConfigErrorFatal ==
    (IntFps <= 0 \/ K <= 0 \/ ~isOpened) =>
        /\ pos = 0
        /\ scored = <<>>
        /\ pc # "done"

\* C7: every top-K write is attempted whatever the outcome of the others,
\* and no failed write is reported as saved.
C7_FailedWritesReported ==
    pc = "done" =>
        /\ written \cup failed = {r - 1 : r \in 1..Len(top_frames)}
        /\ failed \cap Range(printed) = {}

\* C8: during the accumulation the buffer holds exactly the sampled frames
\* whose score is not the sentinel, in arrival order.
C8_BufferIsAdmitted ==
    pc \in {"loop", "raised"} => frames_with_scores = arrivals

C8_Witness ==
    /\ pc = "loop"
    /\ pos = total
    /\ Len(frames_with_scores) >= 2
    /\ Len(scored) > Len(frames_with_scores)
    /\ \E k \in 1..Len(frames_with_scores) :
         RatLt(frames_with_scores[k][2], Rat(1, 10))

\* C9: in the sorted buffer and in the output, frames of equal score keep
\* their sampling order, and the truncation keeps the earlier ones.
C9_StableTies ==
    Finished =>
        /\ \A a, b \in 1..Len(frames_with_scores) :
             (a < b /\ RatEq(frames_with_scores[a][2], frames_with_scores[b][2]))
                => frames_with_scores[a][1].idx < frames_with_scores[b][1].idx
        /\ \A a, b \in 1..Len(top_frames) :
             (a < b /\ RatEq(top_frames[a][2], top_frames[b][2]))
                => top_frames[a][1].idx < top_frames[b][1].idx
        /\ \A x \in Range(top_frames) :
             \A y \in Range(arrivals) \ Range(top_frames) :
                RatEq(x[2], y[2]) => x[1].idx < y[1].idx

C9_Witness ==
    /\ pc = "done"
    /\ K = 2
    /\ Len(arrivals) = 4
    /\ RatEq(arrivals[2][2], arrivals[3][2])
    /\ RatEq(arrivals[3][2], arrivals[4][2])
    /\ arrivals[2][1].px # arrivals[3][1].px
    /\ RatLt(arrivals[1][2], arrivals[2][2])
    /\ result = <<arrivals[2], arrivals[3]>>

\* C10: no file is written while the stream is consumed; a write happens
\* only once the source is exhausted and the buffer sorted and truncated,
\* and a run aborted in the loop has written nothing.
C10_NoWriteBeforeEnd ==
    /\ (pc \in {"loop", "raised"} =>
          written = {} /\ failed = {} /\ printed = <<>>)
    /\ (written \cup failed # {} =>
          /\ Finished
          /\ pos = total
          /\ frames_with_scores = SortDesc(arrivals)
          /\ top_frames = SliceTo(frames_with_scores, K))

C10_Witness ==
    /\ pc = "raised"
    /\ exc = "FaceDetectorError"
    /\ Len(frames_with_scores) >= 1
    /\ K >= 1
    /\ written = {}
====
